---- MODULE Spec2Model ----
(***************************************************************************)
(* Access control and collaboration of echest: the Convex functions of     *)
(* convex/chests.ts (chests, chestPermissions, chestInvites) and of        *)
(* convex/items.ts (items).  Every Convex query or mutation runs as one    *)
(* serializable transaction, so each handler is one atomic action; two     *)
(* concurrent requests are two actions taken in either order.              *)
(*                                                                         *)
(* A table is held as the index the handlers read it through: the rows of  *)
(* each index key, oldest first, so that .first() is the head of a key's   *)
(* rows and .collect() is all of them.  chestPermissions is held as its    *)
(* index by_chest_and_user, chestInvites as its index by_token, items in   *)
(* creation order.  A chest id is never reused.  The clock counts days.    *)
(***************************************************************************)
EXTENDS Integers, Sequences, FiniteSets, TLC

\* ---------------------------------------------------------------- bounds
MaxChests == 1
MaxInvites == 2
MaxItems == 1
MaxTime == 8

\* ------------------------------------------------------------- constants
\* Date.now() + 7 * 24 * 60 * 60 * 1000, in days
InviteTTL == 7

Null == "null"
Anonymous == "anonymous"
Users == {"A", "B", "C"}
Callers == Users \cup {Anonymous}
Email(u) == CASE u = "A" -> "a@x.com"
              [] u = "B" -> "b@x.com"
              [] u = "C" -> "c@x.com"
              [] OTHER -> Null
Emails == {Email(u) : u \in Users}
Roles == {"admin", "editor", "viewer"}
\* what Math.random().toString(36).substring(2, 15) can return
Tokens == {"t1", "t2"}
Names == {"Groceries", "Pantry"}
Descriptions == {"d"}
ChestIds == 1..MaxChests
TickSteps == {1, InviteTTL}

VARIABLES
    chests,            \* chest id -> [name, ownerId, description]
    nextChestId,       \* the id the next db.insert("chests") returns
    chestPermissions,  \* <<chestId, userId>> -> the roles of the rows of that key
    chestInvites,      \* token -> the rows [chestId, email, role, invitedBy, expiresAt]
    items,             \* rows [chestId, createdBy, completed]
    now,               \* Date.now()
    users,             \* the ids of the user records that exist
    last,              \* the last request and its outcome
    redeemed,          \* history: the tokens acceptInvite has succeeded with
    deletedChests      \* history: deleted chest id -> [members: its owner and
                       \* collaborators, rows: how many permissions, invites
                       \* and items the cascade removed]

tables == <<chests, nextChestId, chestPermissions, chestInvites, items>>
history == <<redeemed, deletedChests>>
vars == <<chests, nextChestId, chestPermissions, chestInvites, items, now, users, last,
          redeemed, deletedChests>>

\* ---------------------------------------------------------------- helpers
RemoveAt(rows, i) == SubSeq(rows, 1, i - 1) \o SubSeq(rows, i + 1, Len(rows))

Rows(rows) == {rows[i] : i \in 1..Len(rows)}

PermissionKeys == ChestIds \X Users

\* all rows of chestInvites, and how many there are
InviteRows == UNION {Rows(chestInvites[t]) : t \in Tokens}
RECURSIVE SumLen(_, _)
SumLen(f, keys) ==
    IF keys = {} THEN 0
    ELSE LET k == CHOOSE x \in keys : TRUE IN Len(f[k]) + SumLen(f, keys \ {k})

\* a request (op, caller, chestId argument, other argument) and what it
\* answered: the error thrown or "ok", and the value returned
Outcome(op, caller, chestId, arg, status, ret) ==
    [op |-> op, caller |-> caller, chestId |-> chestId, arg |-> arg,
     status |-> status, ret |-> ret]

\* ------------------------------------------------------------ the resolver
getLoggedInUserError(caller) ==
    IF caller = Anonymous THEN "User not authenticated"
    ELSE IF caller \notin users THEN "User not found"
    ELSE "ok"

\* the resolver with the permission table consulted before the owner
getUserPermission_TableFirst(chestId, userId) ==
    IF chestPermissions[<<chestId, userId>>] # << >>
    THEN Head(chestPermissions[<<chestId, userId>>])
    ELSE IF chestId \in DOMAIN chests /\ chests[chestId].ownerId = userId THEN "owner"
    ELSE Null

getUserPermission(chestId, userId) ==
    IF chestId \in DOMAIN chests /\ chests[chestId].ownerId = userId
    THEN "owner"
    ELSE IF chestPermissions[<<chestId, userId>>] = << >> THEN Null
    ELSE Head(chestPermissions[<<chestId, userId>>])

\* ------------------------------------------------------------------ chests
\* createChest that also writes a permission row for the creator
createChest_OwnerRowInserted(caller, name, description) ==
    /\ nextChestId <= MaxChests
    /\ LET err == getLoggedInUserError(caller) IN
       IF err # "ok"
       THEN /\ last' = Outcome("createChest", caller, 0, Null, err, Null)
            /\ UNCHANGED <<tables, now, users, history>>
       ELSE /\ chests' = chests @@ (nextChestId :>
                  [name |-> name, ownerId |-> caller, description |-> description])
            /\ nextChestId' = nextChestId + 1
            /\ chestPermissions' = [chestPermissions EXCEPT
                  ![<<nextChestId, caller>>] = Append(@, "admin")]
            /\ last' = Outcome("createChest", caller, 0, Null, "ok", nextChestId)
            /\ UNCHANGED <<chestInvites, items, now, users, history>>

createChest(caller, name, description) ==
    /\ nextChestId <= MaxChests
    /\ LET err == getLoggedInUserError(caller) IN
       IF err # "ok"
       THEN /\ last' = Outcome("createChest", caller, 0, Null, err, Null)
            /\ UNCHANGED <<tables, now, users, history>>
       ELSE /\ chests' = chests @@ (nextChestId :>
                  [name |-> name, ownerId |-> caller, description |-> description])
            /\ nextChestId' = nextChestId + 1
            /\ last' = Outcome("createChest", caller, 0, Null, "ok", nextChestId)
            /\ UNCHANGED <<chestPermissions, chestInvites, items, now, users, history>>

getChestError(caller, chestId) ==
    IF getLoggedInUserError(caller) # "ok" THEN getLoggedInUserError(caller)
    ELSE IF getUserPermission(chestId, caller) = Null THEN "Access denied"
    ELSE IF chestId \notin DOMAIN chests THEN "Chest not found"
    ELSE "ok"

getChest(caller, chestId) ==
    LET err == getChestError(caller, chestId) IN
    /\ last' = Outcome("getChest", caller, chestId, Null, err,
                       IF err = "ok" THEN getUserPermission(chestId, caller) ELSE Null)
    /\ UNCHANGED <<tables, now, users, history>>

\* updateChest open to every role that may write items
updateChestError_EditorAllowed(caller, chestId) ==
    IF getLoggedInUserError(caller) # "ok" THEN getLoggedInUserError(caller)
    ELSE IF getUserPermission(chestId, caller) \notin {"owner", "admin", "editor"}
    THEN "Access denied"
    ELSE "ok"

updateChestError(caller, chestId) ==
    IF getLoggedInUserError(caller) # "ok" THEN getLoggedInUserError(caller)
    ELSE IF getUserPermission(chestId, caller) \notin {"owner", "admin"} THEN "Access denied"
    ELSE "ok"

\* updateChest whose patch also hands the chest to the caller
updateChest_OwnerPatched(caller, chestId, name, description) ==
    LET err == updateChestError(caller, chestId) IN
    /\ last' = Outcome("updateChest", caller, chestId, <<name, description>>, err, Null)
    /\ IF err # "ok"
       THEN UNCHANGED <<tables, now, users, history>>
       ELSE /\ chestId \in DOMAIN chests
            /\ chests' = [chests EXCEPT ![chestId] =
                  [name |-> IF name # Null THEN name ELSE @.name,
                   ownerId |-> caller,
                   description |-> IF description # Null THEN description ELSE @.description]]
            /\ UNCHANGED <<nextChestId, chestPermissions, chestInvites, items, now, users, history>>

updateChest(caller, chestId, name, description) ==
    LET err == updateChestError(caller, chestId) IN
    /\ last' = Outcome("updateChest", caller, chestId, <<name, description>>, err, Null)
    /\ IF err # "ok"
       THEN UNCHANGED <<tables, now, users, history>>
       ELSE \* db.patch of a document that does not exist throws
            /\ chestId \in DOMAIN chests
            /\ chests' = [chests EXCEPT ![chestId] =
                  [name |-> IF name # Null THEN name ELSE @.name,
                   ownerId |-> @.ownerId,
                   description |-> IF description # Null THEN description ELSE @.description]]
            /\ UNCHANGED <<nextChestId, chestPermissions, chestInvites, items, now, users, history>>

\* deleteChest gated like updateChest, on the resolved role
deleteChestError_AdminAllowed(caller, chestId) ==
    IF getLoggedInUserError(caller) # "ok" THEN getLoggedInUserError(caller)
    ELSE IF chestId \notin DOMAIN chests
            \/ getUserPermission(chestId, caller) \notin {"owner", "admin"}
    THEN "Access denied"
    ELSE "ok"

deleteChestError(caller, chestId) ==
    IF getLoggedInUserError(caller) # "ok" THEN getLoggedInUserError(caller)
    ELSE IF chestId \notin DOMAIN chests \/ chests[chestId].ownerId # caller
    THEN "Access denied"
    ELSE "ok"

NotOfChest(rows, chestId) == SelectSeq(rows, LAMBDA r : r.chestId # chestId)

deleteChestPermissions(chestId) ==
    [k \in PermissionKeys |-> IF k[1] = chestId THEN << >> ELSE chestPermissions[k]]

\* the cascade without the invites
deleteChestInvites_Kept(chestId) == chestInvites

deleteChestInvites(chestId) ==
    [t \in Tokens |-> NotOfChest(chestInvites[t], chestId)]

\* the cascade without the items
deleteChestItems_Kept(chestId) == items

deleteChestItems(chestId) == NotOfChest(items, chestId)

deleteChest(caller, chestId) ==
    LET err == deleteChestError(caller, chestId) IN
    /\ last' = Outcome("deleteChest", caller, chestId, Null, err, Null)
    /\ IF err # "ok"
       THEN UNCHANGED <<tables, now, users, history>>
       ELSE /\ chestPermissions' = deleteChestPermissions(chestId)
            /\ chestInvites' = deleteChestInvites(chestId)
            /\ items' = deleteChestItems(chestId)
            /\ chests' = [c \in DOMAIN chests \ {chestId} |-> chests[c]]
            /\ deletedChests' = deletedChests @@ (chestId :>
                  [members |-> {u \in Users : getUserPermission(chestId, u) # Null},
                   rows |-> <<SumLen(chestPermissions, PermissionKeys)
                                 - SumLen(deleteChestPermissions(chestId), PermissionKeys),
                              SumLen(chestInvites, Tokens)
                                 - SumLen(deleteChestInvites(chestId), Tokens),
                              Len(items) - Len(deleteChestItems(chestId))>>])
            /\ UNCHANGED <<nextChestId, now, users, redeemed>>

\* ----------------------------------------------------------------- invites
\* inviteUser refusing also an email whose user has access to the chest
inviteUserError_AccessChecked(caller, chestId, email) ==
    IF getLoggedInUserError(caller) # "ok" THEN getLoggedInUserError(caller)
    ELSE IF getUserPermission(chestId, caller) \notin {"owner", "admin"} THEN "Access denied"
    ELSE IF \/ \E i \in InviteRows : i.chestId = chestId /\ i.email = email
            \/ \E u \in Users : Email(u) = email /\ getUserPermission(chestId, u) # Null
    THEN "User already invited"
    ELSE "ok"

\* inviteUser with the look-up narrowed to the invites that have expired
inviteUserError_ExpiredOnly(caller, chestId, email) ==
    IF getLoggedInUserError(caller) # "ok" THEN getLoggedInUserError(caller)
    ELSE IF getUserPermission(chestId, caller) \notin {"owner", "admin"} THEN "Access denied"
    ELSE IF \E i \in InviteRows : i.chestId = chestId /\ i.email = email /\ i.expiresAt < now
    THEN "User already invited"
    ELSE "ok"

\* inviteUser open to every role that may write items
inviteUserError_EditorAllowed(caller, chestId, email) ==
    IF getLoggedInUserError(caller) # "ok" THEN getLoggedInUserError(caller)
    ELSE IF getUserPermission(chestId, caller) \notin {"owner", "admin", "editor"}
    THEN "Access denied"
    ELSE IF \E i \in InviteRows : i.chestId = chestId /\ i.email = email
    THEN "User already invited"
    ELSE "ok"

\* inviteUser without the look-up of an existing invite
inviteUserError_NoExistingCheck(caller, chestId, email) ==
    IF getLoggedInUserError(caller) # "ok" THEN getLoggedInUserError(caller)
    ELSE IF getUserPermission(chestId, caller) \notin {"owner", "admin"} THEN "Access denied"
    ELSE "ok"

inviteUserError(caller, chestId, email) ==
    IF getLoggedInUserError(caller) # "ok" THEN getLoggedInUserError(caller)
    ELSE IF getUserPermission(chestId, caller) \notin {"owner", "admin"} THEN "Access denied"
    ELSE IF \E i \in InviteRows : i.chestId = chestId /\ i.email = email
    THEN "User already invited"
    ELSE "ok"

inviteUser(caller, chestId, email, role, token) ==
    LET err == inviteUserError(caller, chestId, email) IN
    IF err # "ok"
    THEN /\ last' = Outcome("inviteUser", caller, chestId, email, err, Null)
         /\ UNCHANGED <<tables, now, users, history>>
    ELSE /\ SumLen(chestInvites, Tokens) < MaxInvites
         /\ chestInvites' = [chestInvites EXCEPT ![token] = Append(@,
               [chestId |-> chestId, email |-> email, role |-> role,
                invitedBy |-> caller, expiresAt |-> now + InviteTTL])]
         /\ last' = Outcome("inviteUser", caller, chestId, email, "ok", token)
         /\ UNCHANGED <<chests, nextChestId, chestPermissions, items, now, users, history>>

\* acceptInvite without the expiry check
acceptInviteError_NoExpiryCheck(caller, token) ==
    IF getLoggedInUserError(caller) # "ok" THEN getLoggedInUserError(caller)
    ELSE IF chestInvites[token] = << >> THEN "Invalid invite token"
    ELSE LET invite == Head(chestInvites[token]) IN
         IF invite.email # Email(caller) THEN "Invite not for this user"
         ELSE IF chestPermissions[<<invite.chestId, caller>>] # << >>
         THEN "User already has access"
         ELSE "ok"

\* acceptInvite without the comparison of the invite's email with the caller's
acceptInviteError_NoEmailCheck(caller, token) ==
    IF getLoggedInUserError(caller) # "ok" THEN getLoggedInUserError(caller)
    ELSE IF chestInvites[token] = << >> THEN "Invalid invite token"
    ELSE LET invite == Head(chestInvites[token]) IN
         IF invite.expiresAt < now THEN "Invite expired"
         ELSE IF chestPermissions[<<invite.chestId, caller>>] # << >>
         THEN "User already has access"
         ELSE "ok"

\* acceptInvite refusing a caller with access only when the invite offers the
\* role the caller holds
acceptInviteError_SameRoleOnly(caller, token) ==
    IF getLoggedInUserError(caller) # "ok" THEN getLoggedInUserError(caller)
    ELSE IF chestInvites[token] = << >> THEN "Invalid invite token"
    ELSE LET invite == Head(chestInvites[token]) IN
         IF invite.expiresAt < now THEN "Invite expired"
         ELSE IF invite.email # Email(caller) THEN "Invite not for this user"
         ELSE IF /\ chestPermissions[<<invite.chestId, caller>>] # << >>
                 /\ Head(chestPermissions[<<invite.chestId, caller>>]) = invite.role
         THEN "User already has access"
         ELSE "ok"

\* acceptInvite without the look-up of an existing permission
acceptInviteError_NoExistingCheck(caller, token) ==
    IF getLoggedInUserError(caller) # "ok" THEN getLoggedInUserError(caller)
    ELSE IF chestInvites[token] = << >> THEN "Invalid invite token"
    ELSE LET invite == Head(chestInvites[token]) IN
         IF invite.expiresAt < now THEN "Invite expired"
         ELSE IF invite.email # Email(caller) THEN "Invite not for this user"
         ELSE "ok"

acceptInviteError(caller, token) ==
    IF getLoggedInUserError(caller) # "ok" THEN getLoggedInUserError(caller)
    ELSE IF chestInvites[token] = << >> THEN "Invalid invite token"
    ELSE LET invite == Head(chestInvites[token]) IN
         IF invite.expiresAt < now THEN "Invite expired"
         ELSE IF invite.email # Email(caller) THEN "Invite not for this user"
         ELSE IF chestPermissions[<<invite.chestId, caller>>] # << >>
         THEN "User already has access"
         ELSE "ok"

\* acceptInvite that deletes the invite it finds before it checks the caller
acceptInvite_InviteDeletedFirst(caller, token) ==
    LET err == acceptInviteError(caller, token) IN
    IF err # "ok"
    THEN /\ last' = Outcome("acceptInvite", caller, 0, token, err, Null)
         /\ chestInvites' = IF err \in {"User not authenticated", "Invalid invite token"}
                            THEN chestInvites
                            ELSE [chestInvites EXCEPT ![token] = Tail(@)]
         /\ UNCHANGED <<chests, nextChestId, chestPermissions, items, now, users, history>>
    ELSE LET invite == Head(chestInvites[token]) IN
         /\ chestPermissions' = [chestPermissions EXCEPT
               ![<<invite.chestId, caller>>] = Append(@, invite.role)]
         /\ chestInvites' = [chestInvites EXCEPT ![token] = Tail(@)]
         /\ redeemed' = redeemed \cup {token}
         /\ last' = Outcome("acceptInvite", caller, 0, token, "ok", invite.chestId)
         /\ UNCHANGED <<chests, nextChestId, items, now, users, deletedChests>>

acceptInvite(caller, token) ==
    LET err == acceptInviteError(caller, token) IN
    IF err # "ok"
    THEN /\ last' = Outcome("acceptInvite", caller, 0, token, err, Null)
         /\ UNCHANGED <<tables, now, users, history>>
    ELSE LET invite == Head(chestInvites[token]) IN
         /\ chestPermissions' = [chestPermissions EXCEPT
               ![<<invite.chestId, caller>>] = Append(@, invite.role)]
         /\ chestInvites' = [chestInvites EXCEPT ![token] = Tail(@)]
         /\ redeemed' = redeemed \cup {token}
         /\ last' = Outcome("acceptInvite", caller, 0, token, "ok", invite.chestId)
         /\ UNCHANGED <<chests, nextChestId, items, now, users, deletedChests>>

removeCollaboratorError(caller, chestId) ==
    IF getLoggedInUserError(caller) # "ok" THEN getLoggedInUserError(caller)
    ELSE IF getUserPermission(chestId, caller) \notin {"owner", "admin"} THEN "Access denied"
    ELSE "ok"

\* removeCollaborator that throws when the target has no row on the chest
removeCollaborator_Strict(caller, chestId, userId) ==
    LET err == IF removeCollaboratorError(caller, chestId) # "ok"
               THEN removeCollaboratorError(caller, chestId)
               ELSE IF chestPermissions[<<chestId, userId>>] = << >>
               THEN "Collaborator not found"
               ELSE "ok" IN
    /\ last' = Outcome("removeCollaborator", caller, chestId, userId, err, Null)
    /\ IF err = "ok"
       THEN /\ chestPermissions' = [chestPermissions EXCEPT ![<<chestId, userId>>] = Tail(@)]
            /\ UNCHANGED <<chests, nextChestId, chestInvites, items, now, users, history>>
       ELSE UNCHANGED <<tables, now, users, history>>

\* removeCollaborator that answers without deleting the target's row
removeCollaborator_RowKept(caller, chestId, userId) ==
    /\ last' = Outcome("removeCollaborator", caller, chestId, userId,
                       removeCollaboratorError(caller, chestId), Null)
    /\ UNCHANGED <<tables, now, users, history>>

\* removeCollaborator that also deletes the chest's invites issued by or
\* addressed to the removed user
removeCollaborator_InvitesRevoked(caller, chestId, userId) ==
    LET err == removeCollaboratorError(caller, chestId) IN
    /\ last' = Outcome("removeCollaborator", caller, chestId, userId, err, Null)
    /\ IF err = "ok" /\ chestPermissions[<<chestId, userId>>] # << >>
       THEN /\ chestPermissions' = [chestPermissions EXCEPT ![<<chestId, userId>>] = Tail(@)]
            /\ chestInvites' = [t \in Tokens |-> SelectSeq(chestInvites[t],
                  LAMBDA i : ~(/\ i.chestId = chestId
                               /\ (i.invitedBy = userId \/ i.email = Email(userId))))]
            /\ UNCHANGED <<chests, nextChestId, items, now, users, history>>
       ELSE UNCHANGED <<tables, now, users, history>>

removeCollaborator(caller, chestId, userId) ==
    LET err == removeCollaboratorError(caller, chestId) IN
    /\ last' = Outcome("removeCollaborator", caller, chestId, userId, err, Null)
    /\ IF err = "ok" /\ chestPermissions[<<chestId, userId>>] # << >>
       THEN /\ chestPermissions' = [chestPermissions EXCEPT ![<<chestId, userId>>] = Tail(@)]
            /\ UNCHANGED <<chests, nextChestId, chestInvites, items, now, users, history>>
       ELSE UNCHANGED <<tables, now, users, history>>

getCollaboratorsError(caller, chestId) ==
    IF getLoggedInUserError(caller) # "ok" THEN getLoggedInUserError(caller)
    ELSE IF getUserPermission(chestId, caller) = Null THEN "Access denied"
    ELSE IF chestId \notin DOMAIN chests THEN "Chest not found"
    ELSE "ok"

\* the collaborators with an entry for a row whose user record is gone
collaboratorsOf_MissingListed(chestId) ==
    {[_id |-> IF u \in users THEN u ELSE Null, role |-> r] :
        <<u, r>> \in {<<k[2], role>> : <<k, role>> \in
           UNION {{k} \X Rows(chestPermissions[k]) : k \in {chestId} \X Users}}}

\* permissions.map(...) and .filter(Boolean): an entry for each row of the
\* chest whose user record exists
collaboratorsOf(chestId) ==
    {[_id |-> u, role |-> r] :
        <<u, r>> \in {<<k[2], role>> : <<k, role>> \in
           UNION {{k} \X Rows(chestPermissions[k]) : k \in {chestId} \X (Users \cap users)}}}

getCollaborators(caller, chestId) ==
    LET err == getCollaboratorsError(caller, chestId) IN
    /\ last' = Outcome("getCollaborators", caller, chestId, Null, err,
                       IF err # "ok" THEN Null
                       ELSE [owner |-> [_id |-> IF chests[chestId].ownerId \in users
                                                THEN chests[chestId].ownerId ELSE Null,
                                        role |-> "owner"],
                             collaborators |-> collaboratorsOf(chestId)])
    /\ UNCHANGED <<tables, now, users, history>>

\* a user record is deleted; no handler of chests.ts or items.ts does it
deleteUser(userId) ==
    /\ userId \in users
    /\ users' = users \ {userId}
    /\ last' = Outcome("deleteUser", Null, 0, userId, "ok", Null)
    /\ UNCHANGED <<tables, now, history>>

\* ------------------------------------------------------------------- items
addItemError(caller, chestId) ==
    IF getLoggedInUserError(caller) # "ok" THEN getLoggedInUserError(caller)
    ELSE IF getUserPermission(chestId, caller) \in {Null, "viewer"} THEN "Access denied"
    ELSE "ok"

addItem(caller, chestId) ==
    LET err == addItemError(caller, chestId) IN
    IF err # "ok"
    THEN /\ last' = Outcome("addItem", caller, chestId, Null, err, Null)
         /\ UNCHANGED <<tables, now, users, history>>
    ELSE /\ Len(items) < MaxItems
         /\ items' = Append(items,
               [chestId |-> chestId, createdBy |-> caller, completed |-> FALSE])
         /\ last' = Outcome("addItem", caller, chestId, Null, "ok", Null)
         /\ UNCHANGED <<chests, nextChestId, chestPermissions, chestInvites, now, users, history>>

getChestItemsError(caller, chestId) ==
    IF getLoggedInUserError(caller) # "ok" THEN getLoggedInUserError(caller)
    ELSE IF getUserPermission(chestId, caller) = Null THEN "Access denied"
    ELSE "ok"

\* the rows of the chest, newest first
RECURSIVE Reverse(_)
Reverse(rows) == IF rows = << >> THEN << >> ELSE Append(Reverse(Tail(rows)), Head(rows))

getChestItems(caller, chestId) ==
    LET err == getChestItemsError(caller, chestId) IN
    /\ last' = Outcome("getChestItems", caller, chestId, Null, err,
                       IF err # "ok" THEN Null
                       ELSE Reverse(SelectSeq(items, LAMBDA i : i.chestId = chestId)))
    /\ UNCHANGED <<tables, now, users, history>>

\* updateItem and deleteItem open to every role
itemError_ViewerAllowed(caller, itemId) ==
    IF getLoggedInUserError(caller) # "ok" THEN getLoggedInUserError(caller)
    ELSE IF itemId \notin 1..Len(items) THEN "Item not found"
    ELSE IF getUserPermission(items[itemId].chestId, caller) = Null
    THEN "Access denied"
    ELSE "ok"

\* updateItem and deleteItem authorised by the row's createdBy instead of
\* the caller's role on the row's chest
itemError_CreatorAllowed(caller, itemId) ==
    IF getLoggedInUserError(caller) # "ok" THEN getLoggedInUserError(caller)
    ELSE IF itemId \notin 1..Len(items) THEN "Item not found"
    ELSE IF /\ items[itemId].createdBy # caller
            /\ getUserPermission(items[itemId].chestId, caller) \in {Null, "viewer"}
    THEN "Access denied"
    ELSE "ok"

\* itemId is the position of a row; 0 stands for an id of no row
itemError(caller, itemId) ==
    IF getLoggedInUserError(caller) # "ok" THEN getLoggedInUserError(caller)
    ELSE IF itemId \notin 1..Len(items) THEN "Item not found"
    ELSE IF getUserPermission(items[itemId].chestId, caller) \in {Null, "viewer"}
    THEN "Access denied"
    ELSE "ok"

updateItem(caller, itemId, completed) ==
    LET err == itemError(caller, itemId) IN
    /\ last' = Outcome("updateItem", caller, 0, itemId, err, Null)
    /\ IF err # "ok"
       THEN UNCHANGED <<tables, now, users, history>>
       ELSE /\ items' = [items EXCEPT ![itemId].completed = completed]
            /\ UNCHANGED <<chests, nextChestId, chestPermissions, chestInvites, now, users, history>>

deleteItem(caller, itemId) ==
    LET err == itemError(caller, itemId) IN
    /\ last' = Outcome("deleteItem", caller, 0, itemId, err, Null)
    /\ IF err # "ok"
       THEN UNCHANGED <<tables, now, users, history>>
       ELSE /\ items' = RemoveAt(items, itemId)
            /\ UNCHANGED <<chests, nextChestId, chestPermissions, chestInvites, now, users, history>>

\* -------------------------------------------------------------------- time
Tick(d) ==
    /\ now + d <= MaxTime
    /\ now' = now + d
    /\ UNCHANGED <<tables, users, last, history>>

\* ----------------------------------------------------------- specification
Init ==
    /\ chests = << >>
    /\ nextChestId = 1
    /\ chestPermissions = [k \in PermissionKeys |-> << >>]
    /\ chestInvites = [t \in Tokens |-> << >>]
    /\ items = << >>
    /\ now = 0
    /\ users = Users
    /\ last = Outcome("none", Null, 0, Null, "ok", Null)
    /\ redeemed = {}
    /\ deletedChests = << >>

\* The collaboration life cycle: A's chests are created and deleted, A and B
\* are invited as editors, redeem their invites and are removed.
Next ==
    \/ \E u \in {"A"} : createChest(u, "Groceries", Null)
    \/ \E u \in {"A", "B"}, c \in ChestIds, e \in {"a@x.com", "b@x.com"}, t \in Tokens :
          inviteUser(u, c, e, "editor", t)
    \/ \E u \in {"A", "B"}, t \in Tokens : acceptInvite(u, t)
    \/ \E u \in {"A", "B"}, c \in ChestIds, x \in {"A", "B"} : removeCollaborator(u, c, x)
    \/ \E u \in {"A", "B"}, c \in ChestIds : deleteChest(u, c)

Spec == Init /\ [][Next]_vars

\* Redemption against the clock: A invites B to a chest; B, and C who was not
\* invited, try the token while days pass.
NextExpiry ==
    \/ \E u \in {"A"} : createChest(u, "Groceries", Null)
    \/ \E u \in {"A"}, c \in ChestIds, r \in {"editor", "viewer"} :
          inviteUser(u, c, "b@x.com", r, "t1")
    \/ \E u \in {"B", "C"} : acceptInvite(u, "t1")
    \/ \E d \in TickSteps : Tick(d)

SpecExpiry == Init /\ [][NextExpiry]_vars

\* Deletion against use: A's chests gain B as admin or viewer and items, are
\* read and are deleted; C stays a stranger.
NextDelete ==
    \/ \E u \in {"A"} : createChest(u, "Groceries", Null)
    \/ \E u \in {"A"}, c \in ChestIds, r \in {"admin", "viewer"} :
          inviteUser(u, c, "b@x.com", r, "t1")
    \/ \E u \in {"B"} : acceptInvite(u, "t1")
    \/ \E u \in Users, c \in ChestIds : addItem(u, c)
    \/ \E u \in Users, c \in ChestIds : getChest(u, c)
    \/ \E u \in Users, c \in ChestIds : deleteChest(u, c)

SpecDelete == Init /\ [][NextDelete]_vars

\* Roles at work: A's chest gains B in any role while C stays a stranger;
\* everyone tries to invite and to remove everyone.
NextRoles ==
    \/ \E u \in {"A"} : createChest(u, "Groceries", Null)
    \/ \E u \in Users, c \in ChestIds, r \in Roles :
          inviteUser(u, c, "b@x.com", r, "t1")
    \/ \E u \in {"B"} : acceptInvite(u, "t1")
    \/ \E u \in Users, c \in ChestIds, x \in Users : removeCollaborator(u, c, x)

SpecRoles == Init /\ [][NextRoles]_vars

\* The collaborator scenario: A creates the chest "Groceries", invites
\* b@x.com as editor, B redeems the token, A removes B; everyone reads
\* the chest in between.
NextScenario ==
    \/ createChest("A", "Groceries", Null)
    \/ \E c \in ChestIds, t \in Tokens : inviteUser("A", c, "b@x.com", "editor", t)
    \/ \E t \in Tokens : acceptInvite("B", t)
    \/ \E c \in ChestIds : removeCollaborator("A", c, "B")
    \/ \E u \in Users, c \in ChestIds : getChest(u, c)

SpecScenario == Init /\ [][NextScenario]_vars

\* The life of a chest: A creates it, B is invited as admin or editor, A adds
\* items, everyone tries to rename and describe it.
NextChest ==
    \/ createChest("A", "Groceries", Null)
    \/ \E c \in ChestIds, r \in {"admin", "editor"} : inviteUser("A", c, "b@x.com", r, "t1")
    \/ acceptInvite("B", "t1")
    \/ \E c \in ChestIds : addItem("A", c)
    \/ \E u \in Users, c \in ChestIds, f \in {<<"Pantry", Null>>, <<Null, "d">>} :
          updateChest(u, c, f[1], f[2])

SpecChest == Init /\ [][NextChest]_vars

\* Ownership: A or B creates a chest, they make each other admin, rename the
\* chest and delete it.
NextOwner ==
    \/ \E u \in {"A", "B"} : createChest(u, "Groceries", Null)
    \/ \E u \in {"A", "B"}, c \in ChestIds :
          \E e \in {"a@x.com", "b@x.com"} \ {Email(u)} : inviteUser(u, c, e, "admin", "t1")
    \/ \E u \in {"A", "B"} : acceptInvite(u, "t1")
    \/ \E u \in {"A", "B"}, c \in ChestIds : updateChest(u, c, "Pantry", Null)
    \/ \E u \in {"A", "B"}, c \in ChestIds : deleteChest(u, c)

SpecOwner == Init /\ [][NextOwner]_vars

\* Refusals: every mutation is tried by the owner A, by B, who is invited as
\* viewer, and by a caller who is not signed in, on the day of the invite
\* and the day after its last.  The updates that succeed write the values
\* the rows already hold.
NextFailures ==
    \/ \E u \in {"A", Anonymous} : createChest(u, "Groceries", Null)
    \/ \E u \in {"A", "B", Anonymous}, c \in ChestIds : updateChest(u, c, "Groceries", Null)
    \/ \E u \in {"A", "B", Anonymous}, c \in ChestIds : deleteChest(u, c)
    \/ \E u \in {"A", "B", Anonymous}, c \in ChestIds :
          inviteUser(u, c, "b@x.com", "viewer", "t1")
    \/ \E u \in {"A", "B", Anonymous} : acceptInvite(u, "t1")
    \/ \E u \in {"A", "B", Anonymous}, c \in ChestIds : removeCollaborator(u, c, "B")
    \/ \E u \in {"A", "B", Anonymous}, c \in ChestIds : addItem(u, c)
    \/ \E u \in {"A", "B", Anonymous}, i \in 0..MaxItems : updateItem(u, i, FALSE)
    \/ \E u \in {"A", "B", Anonymous}, i \in 0..MaxItems : deleteItem(u, i)
    \/ now = 0 /\ Tick(InviteTTL + 1)

SpecFailures == Init /\ [][NextFailures]_vars

\* The collaborator list: A's chest gains B as editor and C as viewer, the
\* user records of B and C are deleted, and everyone asks for the list.
NextCollaborators ==
    \/ createChest("A", "Groceries", Null)
    \/ \E c \in ChestIds, i \in {<<"b@x.com", "editor">>, <<"c@x.com", "viewer">>} :
          inviteUser("A", c, i[1], i[2], "t1")
    \/ \E u \in {"B", "C"} : acceptInvite(u, "t1")
    \/ \E u \in {"B", "C"} : deleteUser(u)
    \/ \E u \in Users, c \in ChestIds : getCollaborators(u, c)

SpecCollaborators == Init /\ [][NextCollaborators]_vars

\* Items: A's chest gains B as viewer or editor and loses B again; A and B
\* add items, B completes, deletes and lists them.
NextItems ==
    \/ createChest("A", "Groceries", Null)
    \/ \E c \in ChestIds, r \in {"viewer", "editor"} : inviteUser("A", c, "b@x.com", r, "t1")
    \/ acceptInvite("B", "t1")
    \/ \E c \in ChestIds : removeCollaborator("A", c, "B")
    \/ \E u \in {"A", "B"}, c \in ChestIds : addItem(u, c)
    \/ \E i \in 1..MaxItems : updateItem("B", i, TRUE)
    \/ \E i \in 1..MaxItems : deleteItem("B", i)
    \/ \E c \in ChestIds : getChestItems("B", c)

SpecItems == Init /\ [][NextItems]_vars

\* Access gained and lost: A's chest gains B and C as admins, invited by A
\* or by B; A removes them, invites run out, and they redeem again.
NextAccess ==
    \/ createChest("A", "Groceries", Null)
    \/ \E u \in {"A", "B"}, c \in ChestIds, i \in {<<"b@x.com", "t1">>, <<"c@x.com", "t2">>} :
          inviteUser(u, c, i[1], "admin", i[2])
    \/ \E u \in {"B", "C"}, t \in Tokens : acceptInvite(u, t)
    \/ \E c \in ChestIds, x \in {"B", "C"} : removeCollaborator("A", c, x)
    \/ now = 0 /\ Tick(InviteTTL + 1)

SpecAccess == Init /\ [][NextAccess]_vars

\* ------------------------------------------------------------------ claims
\* C1: in every reachable state the owner of every existing chest resolves
\* to "owner", whatever rows chestPermissions holds, a row for the owner
\* included.
C1_OwnerResolvesToOwner ==
    \A c \in DOMAIN chests : getUserPermission(c, chests[c].ownerId) = "owner"

\* the owner has redeemed an invite to their own chest and holds a row for it
C1_Witness ==
    \E c \in DOMAIN chests :
        /\ chestPermissions[<<c, chests[c].ownerId>>] # << >>
        /\ Head(chestPermissions[<<c, chests[c].ownerId>>]) \in Roles
        /\ getUserPermission(c, chests[c].ownerId) = "owner"

\* C2: after any sequence of createChest, inviteUser, acceptInvite,
\* removeCollaborator and deleteChest calls, chestPermissions holds at most
\* one row for each (chestId, userId) pair.
C2_OnePermissionRowPerPair ==
    \A k \in PermissionKeys : Len(chestPermissions[k]) <= 1

\* a user who holds a row on a chest was invited to it again, tried the new
\* token and was refused
C2_Witness ==
    /\ last.op = "acceptInvite"
    /\ last.status = "User already has access"
    /\ LET invite == Head(chestInvites[last.arg]) IN
       Len(chestPermissions[<<invite.chestId, last.caller>>]) = 1

\* C3: two acceptInvite requests for one token running concurrently are two
\* transactions in some order.  Right after the first has succeeded, the
\* second, sent by the same caller with the same token, fails with
\* "Invalid invite token" or "User already has access".
C3_SecondRedemptionFails ==
    (last.op = "acceptInvite" /\ last.status = "ok")
        => acceptInviteError(last.caller, last.arg) \in
              {"Invalid invite token", "User already has access"}

\* C4: once acceptInvite has succeeded with a token, acceptInvite with that
\* token fails for every caller in every later state.
C4_RedeemedTokenIsConsumed ==
    \A t \in redeemed : \A u \in Users : acceptInviteError(u, t) # "ok"

\* a step that is the request op: every request sets last, the clock does not
IsCall(op) == last'.op = op /\ now' = now

\* the invite acceptInvite finds for a token
Found(token) == Head(chestInvites[token])

\* C5: acceptInvite by a signed-in caller with the token of an invite whose
\* expiresAt is before now fails with "Invite expired" and changes no table:
\* no permission row is inserted, the invite stays as it was, and every
\* user's role on every chest, the caller's included, is what it was.
C5_ExpiredInviteRejected ==
    [][(/\ IsCall("acceptInvite")
        /\ chestInvites[last'.arg] # << >>
        /\ Found(last'.arg).expiresAt < now)
       => (/\ last'.status = "Invite expired"
           /\ UNCHANGED tables
           /\ \A c \in ChestIds : \A u \in Users :
                 getUserPermission(c, u)' = getUserPermission(c, u))]_vars

\* the invited user came too late: refused, the invite still there, no role
C5_Witness ==
    /\ last.op = "acceptInvite"
    /\ last.status = "Invite expired"
    /\ chestInvites[last.arg] # << >>
    /\ Found(last.arg).email = Email(last.caller)
    /\ Found(last.arg).expiresAt < now
    /\ getUserPermission(Found(last.arg).chestId, last.caller) = Null

\* C6 as stated: acceptInvite by a caller whose email is not the invite's
\* fails with "Invite not for this user" and changes no table.
C6_WrongEmailAlwaysForbidden ==
    [][(/\ IsCall("acceptInvite")
        /\ chestInvites[last'.arg] # << >>
        /\ Found(last'.arg).email # Email(last'.caller))
       => (/\ last'.status = "Invite not for this user"
           /\ UNCHANGED tables)]_vars

\* C6 as amended: acceptInvite by a caller whose email is not the invite's
\* never succeeds and changes no table; it fails with "Invite not for this
\* user" when the invite has not expired and with "Invite expired" when it
\* has.
C6_WrongEmailRejected ==
    [][(/\ IsCall("acceptInvite")
        /\ chestInvites[last'.arg] # << >>
        /\ Found(last'.arg).email # Email(last'.caller))
       => (/\ last'.status = IF Found(last'.arg).expiresAt < now
                             THEN "Invite expired"
                             ELSE "Invite not for this user"
           /\ UNCHANGED tables)]_vars

\* someone else's token was tried in time: refused, the invite still there
C6_Witness ==
    /\ last.op = "acceptInvite"
    /\ last.status = "Invite not for this user"
    /\ chestInvites[last.arg] # << >>
    /\ Found(last.arg).email # Email(last.caller)
    /\ Found(last.arg).expiresAt >= now
    /\ getUserPermission(Found(last.arg).chestId, last.caller) = Null

\* the rows of each table that belong to a chest
PermissionsOf(c) == {k \in PermissionKeys : k[1] = c /\ chestPermissions[k] # << >>}
InvitesOf(c) == {i \in InviteRows : i.chestId = c}
ItemsOf(c) == {i \in 1..Len(items) : items[i].chestId = c}
Deleted(c) == c < nextChestId /\ c \notin DOMAIN chests

\* C7: deleteChest succeeds only for the chest's owner; called by any other
\* signed-in user, one holding admin on the chest included, it fails with
\* "Access denied" and changes no table.
C7_OnlyOwnerDeletes ==
    [][IsCall("deleteChest")
       => IF last'.chestId \in DOMAIN chests /\ chests[last'.chestId].ownerId = last'.caller
          THEN last'.status = "ok"
          ELSE last'.status = "Access denied" /\ UNCHANGED tables]_vars

\* an admin of a chest that holds an item asked for its deletion and was refused
C7_Witness ==
    /\ last.op = "deleteChest"
    /\ last.status = "Access denied"
    /\ last.chestId \in DOMAIN chests
    /\ getUserPermission(last.chestId, last.caller) = "admin"
    /\ ItemsOf(last.chestId) # {}

\* C8: when deleteChest(c) by the owner has returned, chest c is gone and no
\* chestPermissions, chestInvites or items row with chestId c remains.
C8_DeleteCascades ==
    (last.op = "deleteChest" /\ last.status = "ok")
        => /\ last.chestId \notin DOMAIN chests
           /\ PermissionsOf(last.chestId) = {}
           /\ InvitesOf(last.chestId) = {}
           /\ ItemsOf(last.chestId) = {}

\* the deleted chest held a permission, an invite and an item
C8_Witness ==
    /\ last.op = "deleteChest"
    /\ last.status = "ok"
    /\ \A n \in 1..3 : deletedChests[last.chestId].rows[n] >= 1

\* C9: after a chest has been deleted, getChest on its id answers "Chest not
\* found" to every user who was its owner or a collaborator.
C9_DeletedChestNotFound ==
    (/\ last.op = "getChest"
     /\ Deleted(last.chestId)
     /\ last.caller \in deletedChests[last.chestId].members)
        => last.status = "Chest not found"

\* C10: in every reachable state every chestPermissions, chestInvites and
\* items row refers to a chest that exists.
C10_NoOrphanRows ==
    /\ \A k \in PermissionKeys : chestPermissions[k] # << >> => k[1] \in DOMAIN chests
    /\ \A i \in InviteRows : i.chestId \in DOMAIN chests
    /\ \A i \in 1..Len(items) : items[i].chestId \in DOMAIN chests

\* a chest that had a collaborator was deleted and a former member then
\* tried to add an item to it
C10_Witness ==
    /\ last.op = "addItem"
    /\ Deleted(last.chestId)
    /\ last.caller \in deletedChests[last.chestId].members
    /\ Cardinality(deletedChests[last.chestId].members) = 2
    /\ last.status = "Access denied"

\* the invites of a (chestId, email) pair that can still be redeemed: a row
\* is there until it is redeemed, and expires when now passes expiresAt
OutstandingIn(rows, c, e) ==
    SelectSeq(rows, LAMBDA i : i.chestId = c /\ i.email = e /\ i.expiresAt >= now)
Outstanding(c, e) == {t \in Tokens : OutstandingIn(chestInvites[t], c, e) # << >>}
CanInvite(c, u) == getUserPermission(c, u) \in {"owner", "admin"}

\* C11: inviteUser by an owner or admin for a (chestId, email) pair that has
\* an outstanding invite fails with "User already invited" and changes no
\* table: no invite row is inserted.
C11_OutstandingInviteConflicts ==
    [][(/\ IsCall("inviteUser")
        /\ CanInvite(last'.chestId, last'.caller)
        /\ Outstanding(last'.chestId, last'.arg) # {})
       => (/\ last'.status = "User already invited"
           /\ UNCHANGED tables)]_vars

\* the owner invited an email a second time while its first invite could
\* still be redeemed, and the table holds the first invite only
C11_Witness ==
    /\ last.op = "inviteUser"
    /\ last.status = "User already invited"
    /\ CanInvite(last.chestId, last.caller)
    /\ Outstanding(last.chestId, last.arg) # {}
    /\ SumLen(chestInvites, Tokens) = 1

\* the rows of chestInvites for a (chestId, email) pair, redeemable or not
InvitesFor(c, e) == {i \in InviteRows : i.chestId = c /\ i.email = e}

\* C12: once every invite of a (chestId, email) pair has expired unredeemed,
\* inviteUser by an owner or admin for that pair succeeds and returns a
\* token.
C12_InviteAgainAfterExpiry ==
    [][(/\ IsCall("inviteUser")
        /\ CanInvite(last'.chestId, last'.caller)
        /\ InvitesFor(last'.chestId, last'.arg) # {}
        /\ Outstanding(last'.chestId, last'.arg) = {})
       => (/\ last'.status = "ok"
           /\ last'.ret \in Tokens)]_vars

C14_OwnerHoldsNoRow ==
    \A c \in DOMAIN chests : chestPermissions[<<c, chests[c].ownerId>>] = << >>

\* C15: in every reachable state each (chestId, email) pair has at most one
\* outstanding invite row.
C15_OneOutstandingInvitePerPair ==
    \A c \in ChestIds : \A e \in Emails :
        SumLen([t \in Tokens |-> OutstandingIn(chestInvites[t], c, e)], Tokens) <= 1

\* a pair's invite was redeemed and the pair was invited again: it has had
\* two invites, and one is outstanding
C15_Witness ==
    /\ redeemed # {}
    /\ \E c \in ChestIds : \E u \in Users :
          /\ chestPermissions[<<c, u>>] # << >>
          /\ SumLen([t \in Tokens |-> OutstandingIn(chestInvites[t], c, Email(u))],
                    Tokens) = 1

\* C16: inviteUser by a signed-in caller who resolves to editor, viewer or
\* no role on the chest fails with "Access denied" and changes no table; it
\* succeeds only for a caller who resolves to owner or admin.
C16_OnlyOwnerOrAdminInvites ==
    [][IsCall("inviteUser")
       => IF CanInvite(last'.chestId, last'.caller)
          THEN last'.status \in {"ok", "User already invited"}
          ELSE last'.status = "Access denied" /\ UNCHANGED tables]_vars

\* an editor of a chest with no invite tried to invite and was refused
C16_Witness ==
    /\ last.op = "inviteUser"
    /\ last.status = "Access denied"
    /\ getUserPermission(last.chestId, last.caller) = "editor"
    /\ InviteRows = {}

\* C17: a successful acceptInvite(token) by caller u inserts exactly one
\* permission row, (invite.chestId, u, invite.role), deletes exactly the
\* invite row it found, returns invite.chestId and changes no other row of
\* any table; afterwards u resolves to invite.role on that chest.
C17_AcceptGrantsInviteRole ==
    [][(IsCall("acceptInvite") /\ last'.status = "ok")
       => LET invite == Found(last'.arg) IN
          /\ chestPermissions' = [chestPermissions EXCEPT
                ![<<invite.chestId, last'.caller>>] = Append(@, invite.role)]
          /\ chestInvites' = [chestInvites EXCEPT ![last'.arg] = Tail(@)]
          /\ last'.ret = invite.chestId
          /\ UNCHANGED <<chests, nextChestId, items>>
          /\ \E c \in ChestIds, u \in Users :
                /\ c = invite.chestId
                /\ u = last'.caller
                /\ getUserPermission(c, u)' = invite.role]_vars

\* the caller of an acceptInvite step holds a permission row on the chest
\* of the invite the token finds
HoldsRowOnInvitedChest ==
    /\ IsCall("acceptInvite")
    /\ chestInvites[last'.arg] # << >>
    /\ chestPermissions[<<Found(last'.arg).chestId, last'.caller>>] # << >>

\* C18 as stated: acceptInvite by a caller who holds a permission row on
\* the invite's chest fails with "User already has access" and changes no
\* table.
C18_ExistingAccessAlwaysConflict ==
    [][HoldsRowOnInvitedChest
       => (/\ last'.status = "User already has access"
           /\ UNCHANGED tables)]_vars

\* C18 as amended: acceptInvite by a caller who holds a permission row on
\* the invite's chest never succeeds and changes no table, so the row keeps
\* its role and the invite stays; it fails with "User already has access"
\* when the invite is addressed to the caller and has not expired, with
\* "Invite expired" when it has expired, and otherwise with "Invite not for
\* this user".
C18_ExistingAccessRejected ==
    [][HoldsRowOnInvitedChest
       => (/\ last'.status =
                 IF Found(last'.arg).expiresAt < now THEN "Invite expired"
                 ELSE IF Found(last'.arg).email # Email(last'.caller)
                 THEN "Invite not for this user"
                 ELSE "User already has access"
           /\ UNCHANGED tables)]_vars

\* a viewer tried a fresh invite that offers editor: refused, still viewer,
\* the invite still there
C18_Witness ==
    /\ last.op = "acceptInvite"
    /\ last.status = "User already has access"
    /\ chestInvites[last.arg] # << >>
    /\ Found(last.arg).expiresAt >= now
    /\ Found(last.arg).role = "editor"
    /\ chestPermissions[<<Found(last.arg).chestId, last.caller>>] = <<"viewer">>

\* C19: in the scenario (A creates a chest, invites b@x.com as editor and
\* gets the token T, B redeems T, A removes B) B resolves to editor right
\* after the redemption and to no role right after the removal.
C19_EditorUntilRemoved ==
    [][/\ (IsCall("acceptInvite") /\ last'.status = "ok")
          => \E c \in ChestIds : c = last'.ret /\ getUserPermission(c, "B")' = "editor"
       /\ (/\ IsCall("removeCollaborator")
           /\ last'.status = "ok"
           /\ last'.arg = "B"
           /\ getUserPermission(last'.chestId, "B") = "editor")
          => \E c \in ChestIds : c = last'.chestId /\ getUserPermission(c, "B")' = Null]_vars

\* the end of the scenario: B redeemed a token of A's chest "Groceries", A
\* has removed B, and B has no role on it
C19_Witness ==
    /\ last.op = "removeCollaborator"
    /\ last.status = "ok"
    /\ last.caller = "A"
    /\ last.arg = "B"
    /\ last.chestId \in DOMAIN chests
    /\ chests[last.chestId].name = "Groceries"
    /\ chests[last.chestId].ownerId = "A"
    /\ redeemed # {}
    /\ InviteRows = {}
    /\ getUserPermission(last.chestId, "B") = Null

\* C20: removeCollaborator by an owner or admin with a target that has no
\* permission row on the chest, the chest's owner included, answers without
\* an error and changes no table; the owner still resolves to owner.
C20_RemovingNobodyIsNoOp ==
    [][(/\ IsCall("removeCollaborator")
        /\ CanInvite(last'.chestId, last'.caller)
        /\ chestPermissions[<<last'.chestId, last'.arg>>] = << >>)
       => (/\ last'.status = "ok"
           /\ UNCHANGED tables
           /\ C1_OwnerResolvesToOwner')]_vars

\* an admin asked for the removal of the chest's owner, who has no row:
\* nothing happened and the owner is still the owner
C20_Witness ==
    /\ last.op = "removeCollaborator"
    /\ last.status = "ok"
    /\ getUserPermission(last.chestId, last.caller) = "admin"
    /\ chests[last.chestId].ownerId = last.arg
    /\ chestPermissions[<<last.chestId, last.arg>>] = << >>
    /\ getUserPermission(last.chestId, last.arg) = "owner"

\* C21: updateChest by a signed-in caller succeeds when the caller resolves
\* to owner or admin and otherwise fails with "Access denied" and changes no
\* table; on success the fields supplied take their new values, and an
\* omitted field, ownerId, every other chest and every permission, invite
\* and item row keep theirs.
C21_UpdateChangesSuppliedFields ==
    [][IsCall("updateChest")
       => IF CanInvite(last'.chestId, last'.caller)
          THEN /\ last'.status = "ok"
               /\ DOMAIN chests' = DOMAIN chests
               /\ \A c \in DOMAIN chests \ {last'.chestId} : chests'[c] = chests[c]
               /\ chests'[last'.chestId].ownerId = chests[last'.chestId].ownerId
               /\ chests'[last'.chestId].name =
                     IF last'.arg[1] # Null THEN last'.arg[1]
                     ELSE chests[last'.chestId].name
               /\ chests'[last'.chestId].description =
                     IF last'.arg[2] # Null THEN last'.arg[2]
                     ELSE chests[last'.chestId].description
               /\ UNCHANGED <<nextChestId, chestPermissions, chestInvites, items>>
          ELSE last'.status = "Access denied" /\ UNCHANGED tables]_vars

\* an admin renamed a chest that holds an item and left its description out
C21_Witness ==
    /\ last.op = "updateChest"
    /\ last.status = "ok"
    /\ last.arg = <<"Pantry", Null>>
    /\ getUserPermission(last.chestId, last.caller) = "admin"
    /\ chests[last.chestId].name = "Pantry"
    /\ chests[last.chestId].description = "d"
    /\ ItemsOf(last.chestId) # {}

\* C22: createChest makes its caller the owner of the new chest and inserts
\* no permission row; no step changes the ownerId of a chest that exists
\* before and after it, and a chest comes into existence by createChest
\* only: as long as a chest exists its one owner is the user who created it.
C22_OwnerIsTheCreator ==
    [][/\ \A c \in DOMAIN chests \cap DOMAIN chests' :
             chests'[c].ownerId = chests[c].ownerId
       /\ \A c \in DOMAIN chests' \ DOMAIN chests :
             /\ IsCall("createChest")
             /\ last'.status = "ok"
             /\ last'.ret = c
             /\ c \notin DOMAIN deletedChests
             /\ chests'[c].ownerId = last'.caller
             /\ chests'[c].ownerId \in Users
       /\ (IsCall("createChest") /\ last'.status = "ok")
             => /\ DOMAIN chests' = DOMAIN chests \cup {last'.ret}
                /\ last'.ret \notin DOMAIN chests
                /\ UNCHANGED chestPermissions]_vars

\* B's chest has A as admin, A has renamed it, and B still owns it
C22_Witness ==
    /\ last.op = "updateChest"
    /\ last.status = "ok"
    /\ last.caller = "A"
    /\ getUserPermission(last.chestId, "A") = "admin"
    /\ chests[last.chestId].name = "Pantry"
    /\ chests[last.chestId].ownerId = "B"

\* C23: in every reachable state no two chestInvites rows carry the same
\* token.
C23_TokensAreUnique ==
    \A t \in Tokens : Len(chestInvites[t]) <= 1

\* C24: every request that fails, whatever the error, leaves the chests,
\* chestPermissions, chestInvites and items tables exactly as they were.
C24_FailureWritesNothing ==
    [][(now' = now /\ last'.status # "ok") => UNCHANGED tables]_vars

\* a caller who is not signed in asked for the deletion of a chest that has
\* a collaborator, an invite and an item, and all of them are still there
C24_Witness ==
    /\ last.op = "deleteChest"
    /\ last.caller = Anonymous
    /\ last.status = "User not authenticated"
    /\ last.chestId \in DOMAIN chests
    /\ PermissionsOf(last.chestId) # {}
    /\ InvitesOf(last.chestId) # {}
    /\ ItemsOf(last.chestId) # {}

\* C25: getCollaborators by a signed-in caller fails with "Access denied"
\* when the caller resolves to no role on the chest; otherwise it returns the
\* owner tagged "owner" and, for every permission row of the chest whose
\* user record exists, one entry tagged with the row's role, and nothing for
\* a row whose user record has been deleted.
C25_CollaboratorsListed ==
    (last.op = "getCollaborators" /\ last.caller \in users)
        => IF getUserPermission(last.chestId, last.caller) = Null
           THEN last.status = "Access denied"
           ELSE /\ last.status = "ok"
                /\ last.ret.owner.role = "owner"
                /\ chests[last.chestId].ownerId \in users
                      => last.ret.owner._id = chests[last.chestId].ownerId
                /\ \A e \in last.ret.collaborators : e._id \in Users
                /\ \A u \in Users :
                      {e \in last.ret.collaborators : e._id = u} =
                         IF u \in users
                         THEN {[_id |-> u, role |-> r] :
                                  r \in Rows(chestPermissions[<<last.chestId, u>>])}
                         ELSE {}

\* the list of a chest with two permission rows, asked for after the user
\* record of one of the two was deleted, has one collaborator
C25_Witness ==
    /\ last.op = "getCollaborators"
    /\ last.status = "ok"
    /\ Cardinality(PermissionsOf(last.chestId)) = 2
    /\ \E k \in PermissionsOf(last.chestId) : k[2] \notin users
    /\ Cardinality(last.ret.collaborators) = 1

\* C26: inviteUser by an owner or admin is refused, and inserts no invite,
\* when the email is already invited to the chest or belongs to a user who
\* holds a permission row on the chest or owns it.
C26_InviteRefusedForMembers ==
    [][(/\ IsCall("inviteUser")
        /\ CanInvite(last'.chestId, last'.caller)
        /\ \/ InvitesFor(last'.chestId, last'.arg) # {}
           \/ \E u \in Users : /\ Email(u) = last'.arg
                                /\ getUserPermission(last'.chestId, u) # Null)
       => (/\ last'.status # "ok"
           /\ UNCHANGED chestInvites)]_vars


\* C27: addItem, updateItem and deleteItem change the items table only for a
\* caller who resolves to owner, admin or editor on the item's chest; a
\* viewer or a caller with no role gets "Access denied" and the items table
\* stays as it was; getChestItems succeeds for every role, viewer included,
\* and for no caller without a role.
ItemWriters == {"owner", "admin", "editor"}
ItemChest == IF last'.op = "addItem" THEN last'.chestId ELSE items[last'.arg].chestId
IsItemWrite ==
    \/ IsCall("addItem")
    \/ (IsCall("updateItem") \/ IsCall("deleteItem")) /\ last'.arg \in 1..Len(items)

C27_ItemWritesNeedEditor ==
    [][/\ IsItemWrite =>
            IF getUserPermission(ItemChest, last'.caller) \in ItemWriters
            THEN last'.status = "ok"
            ELSE last'.status = "Access denied" /\ items' = items
       /\ IsCall("getChestItems") =>
            (last'.status = "ok" <=> getUserPermission(last'.chestId, last'.caller) # Null)
      ]_vars

\* a viewer was refused the deletion of an item that is still there
C27_Witness ==
    /\ last.op = "deleteItem"
    /\ last.status = "Access denied"
    /\ last.arg \in 1..Len(items)
    /\ getUserPermission(items[last.arg].chestId, last.caller) = "viewer"


\* C28: item access is isolated per chest. No operation changes the chestId
\* of a row that stays in the items table, and a caller who resolves to no
\* role on a chest neither adds, changes nor removes a row of that chest nor
\* is given its rows by getChestItems, whatever the caller holds elsewhere.
ItemOps == {"addItem", "updateItem", "deleteItem", "getChestItems"}
RowsOf(rows, c) == SelectSeq(rows, LAMBDA i : i.chestId = c)
ChestIdsOf(rows) == [i \in 1..Len(rows) |-> rows[i].chestId]
RowsKeepChest ==
    \/ ChestIdsOf(items') = ChestIdsOf(items)
    \/ \E c \in ChestIds : ChestIdsOf(items') = Append(ChestIdsOf(items), c)
    \/ \E i \in 1..Len(items) : ChestIdsOf(items') = RemoveAt(ChestIdsOf(items), i)
NoRoleOn(c) ==
    /\ last'.op \in ItemOps
    /\ now' = now
    /\ getUserPermission(c, last'.caller) = Null

RowAdded(c, u) == Len(chestPermissions'[<<c, u>>]) > Len(chestPermissions[<<c, u>>])
InviteAdded(t) == Len(chestInvites'[t]) > Len(chestInvites[t])
Redeems(c, u) ==
    /\ IsCall("acceptInvite")
    /\ last'.caller = u
    /\ last'.status = "ok"
    /\ last'.ret = c
    /\ chestInvites[last'.arg] # << >>
    /\ Found(last'.arg).chestId = c
    /\ Found(last'.arg).email = Email(u)
    /\ Found(last'.arg).expiresAt >= now

C29_RowsOnlyFromRedemption ==
    [][/\ \A c \in ChestIds, u \in Users :
            RowAdded(c, u) =>
               /\ Redeems(c, u)
               /\ chestPermissions'[<<c, u>>] =
                     Append(chestPermissions[<<c, u>>], Found(last'.arg).role)
       /\ \A t \in Tokens :
            InviteAdded(t) =>
               /\ IsCall("inviteUser")
               /\ CanInvite(last'.chestId, last'.caller)
               /\ \E i \in InviteRows' :
                     /\ chestInvites'[t] = Append(chestInvites[t], i)
                     /\ i.chestId = last'.chestId
                     /\ i.invitedBy = last'.caller
       /\ \A c \in ChestIds, u \in Users :
            (getUserPermission(c, u) = Null /\ getUserPermission(c, u)' # Null) =>
               \/ Redeems(c, u)
               \/ IsCall("createChest") /\ last'.caller = u /\ last'.ret = c
      ]_vars

\* B and C both redeemed an invite; B's row was removed since and B resolves
\* to no role, while C still holds the role of the invite
C29_Witness ==
    /\ redeemed = {"t1", "t2"}
    /\ last.op = "removeCollaborator"
    /\ last.arg = "B"
    /\ getUserPermission(last.chestId, "B") = Null
    /\ getUserPermission(last.chestId, "C") = "admin"


\* C30: removeCollaborator(chest, u) deletes at most the one permission row
\* of u on the chest and leaves every other table, chestInvites included,
\* as it was: whoever could redeem a token before the removal can redeem it
\* after, invites issued by u among them, and a token of the chest that u
\* was refused for already having access becomes redeemable by u.
RemovedKey == <<last'.chestId, last'.arg>>
Redeemable(u, t) == acceptInviteError(u, t) = "ok"

C30_RemovalLeavesInvites ==
    [][IsCall("removeCollaborator") =>
          /\ UNCHANGED <<chests, nextChestId, chestInvites, items>>
          /\ \A k \in PermissionKeys \ {RemovedKey} :
                chestPermissions'[k] = chestPermissions[k]
          /\ \A k \in PermissionKeys \cap {RemovedKey} :
                \/ chestPermissions'[k] = chestPermissions[k]
                \/ /\ chestPermissions[k] # << >>
                   /\ chestPermissions'[k] = Tail(chestPermissions[k])
          /\ \A u \in Users, t \in Tokens :
                /\ Redeemable(u, t) => Redeemable(u, t)'
                /\ (/\ last'.status = "ok"
                    /\ u = last'.arg
                    /\ acceptInviteError(u, t) = "User already has access"
                    /\ Found(t).chestId = last'.chestId) => Redeemable(u, t)'
      ]_vars

\* B redeemed t1, invited C and was invited again; A has removed B: the
\* invite B issued can be redeemed by C and B's own invite by B
C30_Witness ==
    /\ last.op = "removeCollaborator"
    /\ last.status = "ok"
    /\ last.arg = "B"
    /\ "t1" \in redeemed
    /\ chestPermissions[<<last.chestId, "B">>] = << >>
    /\ chestInvites["t2"] # << >>
    /\ Found("t2").invitedBy = "B"
    /\ Found("t2").chestId = last.chestId
    /\ acceptInviteError("C", "t2") = "ok"
    /\ chestInvites["t1"] # << >>
    /\ Found("t1").chestId = last.chestId
    /\ acceptInviteError("B", "t1") = "ok"

====
